---- MODULE Spec2Model ----
(***************************************************************************)
(* A model of ChemModel (src/chem_tensorflow.py): construction (load_data, *)
(* make_model) and train() with run_epoch, whose minibatches come through  *)
(* utils.ThreadedIterator (a worker thread and a bounded queue).           *)
(*                                                                         *)
(* Numbers.  Losses and accuracies are floats in the program.  Here a      *)
(* per-batch value is a small integer and an aggregate is the exact        *)
(* fraction n/d, kept as a record; +inf and nan are values of their own.   *)
(* Wall-clock quantities (time, instances/sec) and error_ratio (a division *)
(* by a non-zero table constant) are left out of the results.              *)
(***************************************************************************)
EXTENDS Integers, Sequences, FiniteSets, TLC

\* ------------------------------------------------------------ bounds
MaxBatches == 3      \* batches in a data set of a rich pass
MaxEpochs == 6       \* largest num_epochs of a long run
MaxPatience == 2     \* largest patience of a long run
MaxRecords == 2      \* records in a raw data file
MaxInstances == 2    \* constructions from the same args

\* Faulty variant: a queue no pass can fill.
MaxQueueSizeNeverFull == MaxBatches + 2

\* --------------------------------------------------- program constants
MaxQueueSize == 3    \* ThreadedIterator(..., max_queue_size=3)
KeepAll == 100       \* dropout_keep_prob 1.0, in percent

VARIABLES
    \* construction
    args_restrict,      \* args["--restrict_data"]: <<>> for None, else <<n>>
    files,              \* file name -> the record list json.load returns
    ctor_pc,            \* position in __init__
    max_num_vertices, num_edge_types, annotation_size,
    handed,             \* history: the arguments process_raw_graphs was called with
    calls,              \* history: the extension points called, in order
    hook_args,          \* history: the argument each of these calls was given
    seen_schema,        \* history: the schema at each call of process_raw_graphs
    \* configuration
    args_config_file,   \* the content of args["--config-file"]: <<>> for None, else <<mapping>>
    args_config,        \* args["--config"], decoded: <<>> for None, else <<mapping>>
    resolved,           \* history: the parameters each construction resolved
    params,             \* self.params
    hooks,              \* the extension points a concrete model overrides
    ops_range,          \* is_training -> the values ops['loss'], ops['accuracy'] take
    train_data, valid_data,
    \* train()
    pc, epoch, best_val_acc, best_val_acc_epoch,
    log_to_save, log_file, train_results, valid_results,
    last_persisted,     \* history: the list of the last finished write of log_file
    pass_log,           \* history: the passes started, <<epoch, is_training>>
    \* run_epoch
    loss, accuracy, processed_graphs, step,
    \* ThreadedIterator
    queue, worker, holding, iter_pos,
    yielded,            \* history: the batches the iterator yielded in this pass
    runs,               \* history: the sess.run calls of this pass
    producer_failed,    \* history: the iterator raised in this pass
    \* the tf.Session
    weights             \* number of parameter updates applied

ctor_vars == <<args_restrict, files, ctor_pc, max_num_vertices, num_edge_types,
               annotation_size, handed, calls, hook_args, seen_schema>>
load_vars == <<args_restrict, files, ctor_pc, max_num_vertices, num_edge_types,
               annotation_size, handed, seen_schema>>
args_vars == <<args_config_file, args_config>>
config_vars == <<args_vars, resolved, params, hooks, ops_range>>
data_vars == <<train_data, valid_data>>
loop_vars == <<epoch, best_val_acc, best_val_acc_epoch, log_to_save, log_file,
               train_results, valid_results, last_persisted>>
acc_vars == <<loss, accuracy, processed_graphs, step, runs>>
iter_vars == <<queue, worker, holding, iter_pos, yielded, producer_failed>>
vars == <<ctor_vars, config_vars, data_vars, pc, loop_vars, pass_log,
          acc_vars, iter_vars, weights>>

\* ------------------------------------------------------------ values
Num(n, d) == [k |-> "num", n |-> n, d |-> d]
PosInf == [k |-> "inf", n |-> 0, d |-> 0]
NaN == [k |-> "nan", n |-> 0, d |-> 0]
Raised == [k |-> "raise", n |-> 0, d |-> 0]

\* Python's a < b on floats: false when either side is nan.
Less(a, b) ==
    /\ a.k = "num"
    /\ \/ b.k = "inf"
       \/ b.k = "num" /\ a.n * b.d < b.n * a.d

NoResults == [loss |-> NaN, accuracy |-> NaN]

AllHooks == {"process_raw_graphs", "prepare_specific_model",
             "compute_final_node_representations", "gated_regression",
             "make_minibatch_iterator"}

\* ------------------------------------------------------ ThreadedIterator
Batch(i, g) == [kind |-> "batch", id |-> i, num_graphs |-> g]
EndOfStream == [kind |-> "end", id |-> 0, num_graphs |-> 0]
ErrorItem == [kind |-> "error", id |-> 0, num_graphs |-> 0]
NoItem == [kind |-> "none", id |-> 0, num_graphs |-> 0]

\* train(): the data set each pass is run on.
PassData(training) == IF training THEN train_data ELSE valid_data

IsTraining == pc \in {"train_start", "train_loop"}
InLoop == pc \in {"train_loop", "valid_loop"}

\* run_epoch, up to the creation of the iterator.  make_minibatch_iterator
\* is called in the main thread: without an override it raises there.
StartPass ==
    /\ pc \in {"train_start", "valid_start"}
    /\ loss' = 0 /\ accuracy' = 0 /\ processed_graphs' = 0 /\ step' = 0
    /\ runs' = <<>>
    /\ yielded' = <<>> /\ producer_failed' = FALSE
    /\ queue' = <<>> /\ holding' = NoItem /\ iter_pos' = 0
    /\ pass_log' = Append(pass_log, <<epoch, IsTraining>>)
    /\ calls' = Append(calls, "make_minibatch_iterator")
    /\ hook_args' = Append(hook_args, <<PassData(IsTraining), IsTraining>>)
    /\ IF "make_minibatch_iterator" \in hooks
         THEN /\ worker' = "next"
              /\ pc' = IF IsTraining THEN "train_loop" ELSE "valid_loop"
         ELSE /\ worker' = "idle"
              /\ pc' = "error"
    /\ UNCHANGED <<load_vars, config_vars, data_vars, loop_vars, weights>>

\* The worker asks the iterator for its next element.  The iterator walks
\* the pass's data set; an element that cannot be prepared makes it raise.
WorkerNext ==
    /\ InLoop /\ worker = "next"
    /\ LET data == PassData(IsTraining) IN
       IF iter_pos < Len(data)
         THEN LET item == data[iter_pos + 1] IN
              /\ iter_pos' = iter_pos + 1
              /\ IF item.ok
                   THEN /\ holding' = Batch(iter_pos + 1, item.g)
                        /\ yielded' = Append(yielded, Batch(iter_pos + 1, item.g))
                        /\ worker' = "put"
                        /\ UNCHANGED producer_failed
                   ELSE /\ holding' = ErrorItem
                        /\ producer_failed' = TRUE
                        /\ worker' = "put_last"
                        /\ UNCHANGED yielded
         ELSE /\ holding' = EndOfStream
              /\ worker' = "put_last"
              /\ UNCHANGED <<iter_pos, yielded, producer_failed>>
    /\ UNCHANGED <<ctor_vars, config_vars, data_vars, pc, loop_vars, pass_log,
                   acc_vars, queue, weights>>

\* queue.put(block=True): waits while the queue holds max_queue_size items.
WorkerPut ==
    /\ InLoop /\ worker \in {"put", "put_last"}
    /\ Len(queue) < MaxQueueSize
    /\ queue' = Append(queue, holding)
    /\ holding' = NoItem
    /\ worker' = IF worker = "put" THEN "next" ELSE "finished"
    /\ UNCHANGED <<ctor_vars, config_vars, data_vars, pc, loop_vars, pass_log,
                   acc_vars, iter_pos, yielded, producer_failed, weights>>

\* ------------------------------------------------------------ run_epoch
\* Faulty variants of the run_epoch definitions below, which the properties
\* must tell from them.
DropoutFedConfigured(training) == params.dropout_keep_prob
FetchesTrainStepAlways(training) == TRUE
AccumulateUnweighted(total, result, num_graphs) == total + result
SessionRunSkipsEmpty(rs, call) ==
    IF call.batch.num_graphs = 0 THEN rs ELSE Append(rs, call)
OnExceptionSwallowed(p) == IF p = "train_loop" THEN "valid_start" ELSE "log"

\* The dropout-keep probability fed with a batch.
DropoutFed(training) == IF training THEN params.dropout_keep_prob ELSE KeepAll

\* Whether ops['train_step'] is in the fetch list.
FetchesTrainStep(training) == training

\* loss += result[0] * num_graphs (and the same for the accuracy).
Accumulate(total, result, num_graphs) == total + result * num_graphs

\* sess.run(fetch_list, feed_dict=batch_data), once for the batch of the
\* loop: the call is added to the calls made so far.
SessionRun(rs, call) == Append(rs, call)

\* total / processed_graphs at the end of run_epoch.  With no batch at all
\* both are Python ints and 0 / 0 raises ZeroDivisionError; after a batch
\* the total is a numpy scalar (sess.run returns numpy values), whose
\* division by zero gives nan.
Mean(total, processed, batches) ==
    IF processed # 0 THEN Num(total, processed)
    ELSE IF batches = 0 THEN Raised
    ELSE NaN

\* An exception raised inside the for loop of run_epoch is caught nowhere
\* in run_epoch or train(): it ends the run.
OnException(p) == "error"

\* One iteration of the for loop of run_epoch: the next batch of the
\* iterator is run through the session.
ConsumeBatch ==
    /\ InLoop
    /\ queue # <<>> /\ Head(queue).kind = "batch"
    /\ queue' = Tail(queue)
    /\ LET b == Head(queue)
           t == IsTraining
       IN \E l \in ops_range[t].loss, a \in ops_range[t].accuracy :
            /\ processed_graphs' = processed_graphs + b.num_graphs
            /\ loss' = Accumulate(loss, l, b.num_graphs)
            /\ accuracy' = Accumulate(accuracy, a, b.num_graphs)
            /\ step' = step + 1
            /\ runs' = SessionRun(runs, [batch |-> b, is_training |-> t,
                                         dropout |-> DropoutFed(t),
                                         train_step |-> FetchesTrainStep(t),
                                         loss |-> l, accuracy |-> a])
            /\ weights' = IF FetchesTrainStep(t) THEN weights + 1 ELSE weights
    /\ UNCHANGED <<ctor_vars, config_vars, data_vars, pc, loop_vars, pass_log,
                   worker, holding, iter_pos, yielded, producer_failed>>

\* The iterator is exhausted: run_epoch computes the means and returns.
ConsumeEnd ==
    /\ InLoop
    /\ queue # <<>> /\ Head(queue).kind = "end"
    /\ queue' = Tail(queue)
    /\ LET res == [loss |-> Mean(loss, processed_graphs, step),
                   accuracy |-> Mean(accuracy, processed_graphs, step)]
       IN IF res.accuracy.k = "raise"
            THEN /\ pc' = OnException(pc)
                 /\ UNCHANGED <<train_results, valid_results>>
            ELSE IF IsTraining
              THEN /\ train_results' = res
                   /\ pc' = "valid_start"
                   /\ UNCHANGED valid_results
              ELSE /\ valid_results' = res
                   /\ pc' = "log"
                   /\ UNCHANGED train_results
    /\ UNCHANGED <<ctor_vars, config_vars, data_vars, epoch, best_val_acc,
                   best_val_acc_epoch, log_to_save, log_file, last_persisted,
                   pass_log, acc_vars, worker, holding, iter_pos, yielded,
                   producer_failed, weights>>

\* The producer's failure reaches the consumer, which raises it.
ConsumeError ==
    /\ InLoop
    /\ queue # <<>> /\ Head(queue).kind = "error"
    /\ queue' = Tail(queue)
    /\ pc' = OnException(pc)
    /\ UNCHANGED <<ctor_vars, config_vars, data_vars, loop_vars, pass_log,
                   acc_vars, worker, holding, iter_pos, yielded,
                   producer_failed, weights>>

\* ---------------------------------------------------------------- train
\* Faulty variant: the configured epoch count taken as an inclusive bound.
InRangeInclusive(e, n) == e <= n

\* Whether e is in range(1, n).
InRange(e, n) == 1 <= e /\ e < n

\* train() is called on a constructed model: the lines before the loop.
CallTrain ==
    /\ ctor_pc = "constructed" /\ pc = "not_called"
    /\ log_to_save' = <<>>
    /\ best_val_acc' = PosInf /\ best_val_acc_epoch' = 0
    /\ pc' = "for"
    /\ UNCHANGED <<ctor_vars, config_vars, data_vars, epoch, log_file,
                   train_results, valid_results, last_persisted, pass_log,
                   acc_vars, iter_vars, weights>>

\* for epoch in range(1, num_epochs)
ForEpoch ==
    /\ pc = "for"
    /\ IF InRange(epoch + 1, params.num_epochs)
         THEN epoch' = epoch + 1 /\ pc' = "train_start"
         ELSE epoch' = epoch /\ pc' = "exhausted"
    /\ UNCHANGED <<ctor_vars, config_vars, data_vars, best_val_acc,
                   best_val_acc_epoch, log_to_save, log_file, train_results,
                   valid_results, last_persisted, pass_log, acc_vars,
                   iter_vars, weights>>

LogEntry == [epoch |-> epoch, train_results |-> train_results,
             valid_results |-> valid_results]

\* log_to_save.append(log_entry); open(self.log_file, 'w') empties the file.
AppendLog ==
    /\ pc = "log"
    /\ log_to_save' = Append(log_to_save, LogEntry)
    /\ log_file' = [state |-> "truncated", entries |-> <<>>]
    /\ pc' = "dump"
    /\ UNCHANGED <<ctor_vars, config_vars, data_vars, epoch, best_val_acc,
                   best_val_acc_epoch, train_results, valid_results,
                   last_persisted, pass_log, acc_vars, iter_vars, weights>>

\* Faulty variant: only the newest entry is written.
DumpedLast(log) == <<log[Len(log)]>>

\* What json.dump(log_to_save, f) writes.
Dumped(log) == log

\* json.dump(log_to_save, f, indent=4) and the close of the file.
DumpLog ==
    /\ pc = "dump"
    /\ log_file' = [state |-> "written", entries |-> Dumped(log_to_save)]
    /\ last_persisted' = Dumped(log_to_save)
    /\ pc' = "stop_check"
    /\ UNCHANGED <<ctor_vars, config_vars, data_vars, epoch, best_val_acc,
                   best_val_acc_epoch, log_to_save, train_results,
                   valid_results, pass_log, acc_vars, iter_vars, weights>>

\* Faulty variant: stop as soon as the patience is reached.
OutOfPatienceReached(e, best_epoch, patience) == e - best_epoch >= patience

\* elif epoch - best_val_acc_epoch > self.params['patience']
OutOfPatience(e, best_epoch, patience) == e - best_epoch > patience

\* The early-stopping test at the end of an epoch.
StopCheck ==
    /\ pc = "stop_check"
    /\ LET val_acc == valid_results.accuracy IN
       IF Less(val_acc, best_val_acc)
         THEN /\ best_val_acc' = val_acc
              /\ best_val_acc_epoch' = epoch
              /\ pc' = "for"
         ELSE /\ UNCHANGED <<best_val_acc, best_val_acc_epoch>>
              /\ pc' = IF OutOfPatience(epoch, best_val_acc_epoch, params.patience)
                         THEN "stopped" ELSE "for"
    /\ UNCHANGED <<ctor_vars, config_vars, data_vars, epoch, log_to_save,
                   log_file, train_results, valid_results, last_persisted,
                   pass_log, acc_vars, iter_vars, weights>>

\* --------------------------------------------------- parameter resolution
\* default_params().  learning_rate is counted in ten-thousandths,
\* dropout_keep_prob in hundredths.
DefaultParams ==
    [num_epochs |-> 3000, patience |-> 25, learning_rate |-> 1,
     clamp_gradient_norm |-> 1, dropout_keep_prob |-> 100, hidden_size |-> 100,
     num_timesteps |-> 4, tie_fwd_bkwd |-> TRUE, task_id |-> 0]

\* Faulty variant: the update replaces the whole mapping.
UpdateReplace(d, u) == u

\* d.update(u): the keys of u are set in d, the others are left alone.
Update(d, u) ==
    [k \in DOMAIN d \cup DOMAIN u |-> IF k \in DOMAIN u THEN u[k] ELSE d[k]]

\* params = self.default_params(), updated from the configuration file when
\* one is given, then from the inline configuration when one is given.
ResolveParams(config_file, config) ==
    LET from_file == IF config_file # <<>>
                       THEN Update(DefaultParams, config_file[1])
                       ELSE DefaultParams
    IN IF config # <<>> THEN Update(from_file, config[1]) ELSE from_file

\* The first lines of __init__: self.params = params.
ResolveParamsStep ==
    /\ ctor_pc = "params"
    /\ params' = ResolveParams(args_config_file, args_config)
    /\ resolved' = Append(resolved, params')
    /\ ctor_pc' = "load_train"
    /\ UNCHANGED <<args_restrict, files, max_num_vertices, num_edge_types,
                   annotation_size, handed, calls, hook_args, seen_schema,
                   args_vars, hooks, ops_range, data_vars, pc, loop_vars,
                   pass_log, acc_vars, iter_vars, weights>>

\* Another instance is constructed from the same args.
NewInstance ==
    /\ ctor_pc = "load_train"
    /\ Len(resolved) < MaxInstances
    /\ params' = DefaultParams
    /\ ctor_pc' = "params"
    /\ UNCHANGED <<args_restrict, files, max_num_vertices, num_edge_types,
                   annotation_size, handed, calls, hook_args, seen_schema,
                   args_vars, resolved, hooks, ops_range, data_vars, pc,
                   loop_vars, pass_log, acc_vars, iter_vars, weights>>

\* ------------------------------------------------------------ load_data
Max(a, b) == IF a >= b THEN a ELSE b
Min(a, b) == IF a <= b THEN a ELSE b

\* max(...) of a non-empty collection of integers.
MaxOf(S) == CHOOSE m \in S : \A x \in S : x <= m

\* [v for e in g['graph'] for v in [e[0], e[2]]]
VerticesOf(g) == {g.graph[i][1] : i \in 1..Len(g.graph)}
                   \cup {g.graph[i][3] : i \in 1..Len(g.graph)}

\* [e[1] for e in g['graph']]
EdgeTypesOf(g) == {g.graph[i][2] : i \in 1..Len(g.graph)}

\* Faulty variant: one record more than the limit is kept.
TruncateOneMore(data, restrict) ==
    IF restrict # <<>> /\ restrict[1] > 0
      THEN SubSeq(data, 1, IF restrict[1] + 1 <= Len(data) THEN restrict[1] + 1 ELSE Len(data))
      ELSE data

\* data[:restrict] when restrict is not None and restrict > 0.
Truncate(data, restrict) ==
    IF restrict # <<>> /\ restrict[1] > 0
      THEN SubSeq(data, 1, Min(restrict[1], Len(data)))
      ELSE data

\* The scan "for g in data": max_num_vertices is assigned record by record,
\* num_fwd_edge_types is a local.  max([]) of a record without edges raises
\* and ends the scan with what was assigned before.
RECURSIVE Scan(_, _, _, _)
Scan(data, i, mv, fwd) ==
    IF i > Len(data) THEN [ok |-> TRUE, mv |-> mv, fwd |-> fwd]
    ELSE IF data[i].graph = <<>> THEN [ok |-> FALSE, mv |-> mv, fwd |-> fwd]
    ELSE Scan(data, i + 1, Max(mv, MaxOf(VerticesOf(data[i]))),
              Max(fwd, MaxOf(EdgeTypesOf(data[i]))))

\* num_fwd_edge_types * (1 if self.params['tie_fwd_bkwd'] else 2)
Directions == IF params.tie_fwd_bkwd THEN 1 ELSE 2

\* Faulty variants: the value of the last load replaces the running maximum;
\* the annotation size is set by the first load only.
NewEdgeTypesOverwrite(old, fwd) == fwd * Directions
NewAnnotationSizeFirst(old, data) ==
    IF old = 0 THEN Len(data[1].node_features[1]) ELSE old

\* self.num_edge_types = max(self.num_edge_types, ...)
NewEdgeTypes(old, fwd) == Max(old, fwd * Directions)

\* self.annotation_size = max(self.annotation_size, len(data[0]["node_features"][0]))
NewAnnotationSize(old, data) == Max(old, Len(data[1].node_features[1]))

\* data[0]["node_features"][0] exists.
HasFirstNode(data) == data # <<>> /\ data[1].node_features # <<>>

\* process_raw_graphs is model-defined; what it returns is opaque to the
\* base class and stands here as the records it was given.
ProcessRawGraphs(data) == data

\* load_data(file_name); `after` is where __init__ goes on when it returns.
LoadData(file_name, after) ==
    LET data == Truncate(files[file_name], args_restrict)
        s == Scan(data, 1, max_num_vertices, 0)
    IN /\ max_num_vertices' = s.mv
       /\ IF ~s.ok
            THEN /\ ctor_pc' = "error"
                 /\ UNCHANGED <<num_edge_types, annotation_size, handed,
                                seen_schema, data_vars>>
            ELSE /\ num_edge_types' = NewEdgeTypes(num_edge_types, s.fwd)
                 /\ IF ~HasFirstNode(data)
                      THEN /\ ctor_pc' = "error"
                           /\ UNCHANGED <<annotation_size, handed, seen_schema,
                                          data_vars>>
                      ELSE /\ annotation_size' = NewAnnotationSize(annotation_size, data)
                           /\ handed' = Append(handed, data)
                           /\ seen_schema' = Append(seen_schema,
                                                    <<max_num_vertices', num_edge_types',
                                                      annotation_size'>>)
                           /\ IF "process_raw_graphs" \in hooks
                                THEN /\ ctor_pc' = after
                                     /\ IF file_name = "molecules_train.json"
                                          THEN /\ train_data' = ProcessRawGraphs(data)
                                               /\ UNCHANGED valid_data
                                          ELSE /\ valid_data' = ProcessRawGraphs(data)
                                               /\ UNCHANGED train_data
                                ELSE /\ ctor_pc' = "error"
                                     /\ UNCHANGED data_vars
       /\ UNCHANGED <<args_restrict, files, calls, hook_args, config_vars, pc, loop_vars,
                      pass_log, acc_vars, iter_vars, weights>>

\* self.train_data = self.load_data("molecules_train.json")
LoadTrain == ctor_pc = "load_train" /\ LoadData("molecules_train.json", "load_valid")

\* self.valid_data = self.load_data("molecules_valid.json")
LoadValid == ctor_pc = "load_valid" /\ LoadData("molecules_valid.json", "make_model")

\* Faulty variant: the regression is built before the representations.
ModelHooksRegressionFirst ==
    <<"prepare_specific_model", "gated_regression",
      "compute_final_node_representations">>

\* The extension points make_model calls, in the order of its calls.
ModelHooks == <<"prepare_specific_model", "compute_final_node_representations",
                "gated_regression">>

\* Faulty variant: the calls go on after an extension point raised.
HookCallsAll(order, i) == order

\* The calls made until the first extension point without an override,
\* which raises.
RECURSIVE HookCalls(_, _)
HookCalls(order, i) ==
    IF i > Len(order) THEN <<>>
    ELSE IF order[i] \in hooks THEN <<order[i]>> \o HookCalls(order, i + 1)
    ELSE <<order[i]>>

\* What an extension point returns is opaque to the base class: a token
\* naming the call it came from.
ReturnOf(hook) == <<"returned by", hook>>
NoArgument == <<>>

\* self.ops['final_node_representations'] = self.compute_final_node_representations()
\* computed_values = self.gated_regression(self.ops['final_node_representations'])
\* The other two are called without arguments.
ArgumentOf(hook) ==
    IF hook = "gated_regression"
      THEN ReturnOf("compute_final_node_representations")
      ELSE NoArgument

\* self.make_model()
MakeModel ==
    /\ ctor_pc = "make_model"
    /\ LET made == HookCalls(ModelHooks, 1)
       IN /\ calls' = calls \o made
          /\ hook_args' = hook_args \o [i \in 1..Len(made) |-> ArgumentOf(made[i])]
    /\ ctor_pc' = IF \A i \in 1..Len(ModelHooks) : ModelHooks[i] \in hooks
                    THEN "constructed" ELSE "error"
    /\ UNCHANGED <<args_restrict, files, max_num_vertices, num_edge_types,
                   annotation_size, handed, seen_schema, config_vars, data_vars, pc,
                   loop_vars, pass_log, acc_vars, iter_vars, weights>>

\* ------------------------------------------------- initial states
Params(n, p, d, t) == [num_epochs |-> n, patience |-> p,
                       dropout_keep_prob |-> d, tie_fwd_bkwd |-> t]

\* Raw graph records: edges (source, edge type, target) and one feature
\* vector per node.  RecD has no edge.
RecA == [graph |-> << <<0, 1, 1>> >>, node_features |-> << <<0>>, <<0>> >>]
RecB == [graph |-> << <<0, 2, 1>>, <<1, 1, 2>> >>,
         node_features |-> << <<0, 0>>, <<0, 0>>, <<0, 0>> >>]
RecC == [graph |-> << <<3, 3, 0>> >>,
         node_features |-> << <<0, 0, 0>>, <<0, 0, 0>>, <<0, 0, 0>>, <<0, 0, 0>> >>]
RecD == [graph |-> <<>>, node_features |-> << <<0>> >>]
Records == {RecA, RecB, RecC, RecD}
RawFiles == UNION {[1..n -> Records] : n \in 0..MaxRecords}
Restricts == {<<>>} \cup {<<n>> : n \in (-1)..(MaxRecords + 1)}
FileNames == {"molecules_train.json", "molecules_valid.json"}

\* What a pass's iterator is asked to prepare: a batch of g graphs, or
\* (ok = FALSE) an element whose preparation raises.
Item(g, ok) == [g |-> g, ok |-> ok]
Items == {Item(0, TRUE), Item(1, TRUE), Item(3, TRUE), Item(1, FALSE)}
DataSets == UNION {[1..n -> Items] : n \in 0..MaxBatches}
OneBatch == <<Item(1, TRUE)>>

Range(ls, as) == [loss |-> ls, accuracy |-> as]
LossRange == Range({1, 3}, {2})
AccuracyRange == Range({1}, {2, 4})
FlatRange == Range({1}, {2})
ValRange == Range({1}, 4..8)

\* The part of the state train() and run_epoch set up themselves.
TrainStart ==
    /\ pc = "for" /\ epoch = 0
    /\ best_val_acc = PosInf /\ best_val_acc_epoch = 0
    /\ log_to_save = <<>>
    /\ log_file = [state |-> "absent", entries |-> <<>>]
    /\ last_persisted = <<>>
    /\ train_results = NoResults /\ valid_results = NoResults
    /\ pass_log = <<>>
    /\ loss = 0 /\ accuracy = 0 /\ processed_graphs = 0 /\ step = 0
    /\ runs = <<>>
    /\ queue = <<>> /\ worker = "idle" /\ holding = NoItem /\ iter_pos = 0
    /\ yielded = <<>> /\ producer_failed = FALSE
    /\ weights = 0

\* A constructed model.
Constructed ==
    /\ args_restrict = <<>>
    /\ files = [f \in FileNames |-> <<RecA>>]
    /\ ctor_pc = "constructed"
    /\ max_num_vertices = 1 /\ num_edge_types = 1 /\ annotation_size = 1
    /\ handed = << <<RecA>>, <<RecA>> >>
    /\ seen_schema = << <<1, 1, 1>>, <<1, 1, 1>> >>
    /\ calls = ModelHooks
    /\ hook_args = [i \in 1..Len(ModelHooks) |-> ArgumentOf(ModelHooks[i])]

\* One pass over a rich data set, the other over a single batch.
RichTrain ==
    /\ hooks = AllHooks
    /\ params = Params(2, 0, 50, TRUE)
    /\ train_data \in DataSets /\ valid_data = OneBatch
    /\ ops_range = [t \in BOOLEAN |-> IF t THEN LossRange ELSE FlatRange]

RichValid ==
    /\ hooks = AllHooks
    /\ params = Params(2, 0, KeepAll, TRUE)
    /\ train_data = OneBatch /\ valid_data \in DataSets
    /\ ops_range = [t \in BOOLEAN |-> IF t THEN FlatRange ELSE AccuracyRange]

\* Many epochs of single-batch passes, the validation accuracy varying.
LongRun ==
    /\ hooks = AllHooks
    /\ \E n \in 0..MaxEpochs, p \in 0..MaxPatience : params = Params(n, p, 50, TRUE)
    /\ train_data = OneBatch /\ valid_data = OneBatch
    /\ ops_range = [t \in BOOLEAN |-> IF t THEN FlatRange ELSE ValRange]

\* A model that does not override make_minibatch_iterator (make_model
\* never calls it, so construction succeeds).
NoIterator ==
    /\ hooks = AllHooks \ {"make_minibatch_iterator"}
    /\ params = Params(2, 0, 50, TRUE)
    /\ train_data = OneBatch /\ valid_data = OneBatch
    /\ ops_range = [t \in BOOLEAN |-> FlatRange]

\* params holds the keys train(), run_epoch and load_data read; the
\* scenarios set them by the inline configuration.
InlineConfigured ==
    /\ args_config_file = <<>>
    /\ args_config = <<params>>
    /\ resolved = <<params>>

Init ==
    /\ Constructed
    /\ TrainStart
    /\ (RichTrain \/ RichValid \/ LongRun \/ NoIterator)
    /\ InlineConfigured

Next ==
    \/ ForEpoch
    \/ StartPass
    \/ WorkerNext
    \/ WorkerPut
    \/ ConsumeBatch
    \/ ConsumeEnd
    \/ ConsumeError
    \/ AppendLog
    \/ DumpLog
    \/ StopCheck

Spec == Init /\ [][Next]_vars

\* The two threads: train() with run_epoch, and the iterator's worker.
\* A thread that can run is eventually run.
Main == ForEpoch \/ StartPass \/ ConsumeBatch \/ ConsumeEnd \/ ConsumeError
          \/ AppendLog \/ DumpLog \/ StopCheck
Worker == WorkerNext \/ WorkerPut
FairSpec == Spec /\ WF_vars(Main) /\ WF_vars(Worker)

\* The start of __init__, after the parameters are resolved.
InitLoad ==
    /\ args_restrict \in Restricts
    /\ files \in [FileNames -> RawFiles]
    /\ ctor_pc = "load_train"
    /\ max_num_vertices = 0 /\ num_edge_types = 0 /\ annotation_size = 0
    /\ handed = <<>> /\ calls = <<>> /\ hook_args = <<>> /\ seen_schema = <<>>
    /\ \E t \in BOOLEAN : params = Params(2, 0, KeepAll, t)
    /\ InlineConfigured
    /\ hooks \in {AllHooks} \cup {AllHooks \ {h} : h \in AllHooks}
    /\ hooks # AllHooks => /\ args_restrict = <<>>
                           /\ files = [f \in FileNames |-> <<RecA, RecB>>]
    /\ ops_range = [t \in BOOLEAN |-> FlatRange]
    /\ train_data = <<>> /\ valid_data = <<>>
    /\ TrainStart

NextLoad ==
    \/ LoadTrain
    \/ LoadValid
    \/ MakeModel

SpecLoad == InitLoad /\ [][NextLoad]_vars

\* Configurations: a mapping from some keys, known or not, to values.
ConfigKeys == {"patience", "hidden_size", "comment"}
ConfigValues == {1, 2}
Configs == UNION {[K -> ConfigValues] : K \in SUBSET ConfigKeys}
ConfigArgs == {<<>>} \cup {<<c>> : c \in Configs}

\* The start of __init__, before the parameters are resolved.
InitConfig ==
    /\ args_config_file \in ConfigArgs
    /\ args_config \in ConfigArgs
    /\ resolved = <<>>
    /\ params = DefaultParams
    /\ ctor_pc = "params"
    /\ args_restrict = <<>>
    /\ files = [f \in FileNames |-> <<RecA>>]
    /\ max_num_vertices = 0 /\ num_edge_types = 0 /\ annotation_size = 0
    /\ handed = <<>> /\ calls = <<>> /\ hook_args = <<>> /\ seen_schema = <<>>
    /\ hooks = AllHooks
    /\ ops_range = [t \in BOOLEAN |-> FlatRange]
    /\ train_data = <<>> /\ valid_data = <<>>
    /\ TrainStart

NextConfig ==
    \/ ResolveParamsStep
    \/ NewInstance

SpecConfig == InitConfig /\ [][NextConfig]_vars

\* A model class that leaves one extension point without an override, from
\* the start of __init__ to the end of the run.  With an extension point
\* missing no pass gets as far as its loop.
InitHooks ==
    /\ \E h \in AllHooks : hooks = AllHooks \ {h}
    /\ args_restrict = <<>>
    /\ files \in [FileNames -> RawFiles]
    /\ ctor_pc = "load_train"
    /\ max_num_vertices = 0 /\ num_edge_types = 0 /\ annotation_size = 0
    /\ handed = <<>> /\ calls = <<>> /\ hook_args = <<>> /\ seen_schema = <<>>
    /\ params = Params(2, 0, KeepAll, TRUE)
    /\ InlineConfigured
    /\ ops_range = [t \in BOOLEAN |-> FlatRange]
    /\ train_data = <<>> /\ valid_data = <<>>
    /\ pc = "not_called" /\ epoch = 0
    /\ best_val_acc = PosInf /\ best_val_acc_epoch = 0
    /\ log_to_save = <<>>
    /\ log_file = [state |-> "absent", entries |-> <<>>]
    /\ last_persisted = <<>>
    /\ train_results = NoResults /\ valid_results = NoResults
    /\ pass_log = <<>>
    /\ loss = 0 /\ accuracy = 0 /\ processed_graphs = 0 /\ step = 0
    /\ runs = <<>>
    /\ queue = <<>> /\ worker = "idle" /\ holding = NoItem /\ iter_pos = 0
    /\ yielded = <<>> /\ producer_failed = FALSE
    /\ weights = 0

NextHooks ==
    \/ LoadTrain
    \/ LoadValid
    \/ MakeModel
    \/ CallTrain
    \/ ForEpoch
    \/ StartPass

SpecHooks == InitHooks /\ [][NextHooks]_vars

\* ======================================================== properties
\* The aggregate v is the number m.
ValueIs(v, m) == v.k = "num" /\ v.n = m * v.d

\* The validation accuracies of the epochs logged so far.
ValAccs == [i \in 1..Len(log_to_save) |-> log_to_save[i].valid_results.accuracy]

ExampleAccs == <<5, 4, 6, 7, 8>>
MatchesExample(k) ==
    /\ k <= Len(ExampleAccs) /\ k <= Len(log_to_save)
    /\ \A i \in 1..k : ValueIs(ValAccs[i], ExampleAccs[i])

C1_Step ==
    (pc = "stop_check" /\ pc' # "stop_check") =>
        LET v == valid_results.accuracy
            b == best_val_acc
            lower == /\ v.k = "num"
                     /\ b.k \in {"inf", "num"}
                     /\ b.k = "num" => v.n * b.d < b.n * v.d
        IN IF lower
             THEN /\ best_val_acc' = v
                  /\ best_val_acc_epoch' = epoch
                  /\ pc' = "for"
             ELSE /\ best_val_acc' = b
                  /\ best_val_acc_epoch' = best_val_acc_epoch
                  /\ epoch - best_val_acc_epoch > params.patience => pc' = "stopped"
                  /\ epoch - best_val_acc_epoch <= params.patience => pc' = "for"

C1_Example ==
    (params.patience = 2 /\ MatchesExample(Len(log_to_save))) =>
        /\ Len(log_to_save) < 5 => pc # "stopped"
        /\ (Len(log_to_save) = 5 /\ pc \notin {"dump", "stop_check"}) =>
              /\ pc = "stopped" /\ epoch = 5
              /\ best_val_acc_epoch = 2 /\ ValueIs(best_val_acc, 4)

\* C1: at the end of every epoch e the early-stopping test sets (best,
\* best_epoch) to (val_acc, e) when val_acc is strictly lower than the best,
\* and otherwise leaves them, stops when e - best_epoch > patience and goes on
\* when e - best_epoch <= patience; with validation accuracies 5,4,6,7,8 and
\* patience 2 the best is 4 at epoch 2 and the loop stops at epoch 5, not
\* before.
C1_EarlyStopping == [][C1_Step]_vars /\ []C1_Example

C1_Witness ==
    /\ pc = "stopped" /\ params.patience = 2
    /\ Len(log_to_save) = 5 /\ MatchesExample(5)

Budget == Max(params.num_epochs - 1, 0)
Terminated == pc \in {"exhausted", "stopped", "error"}

C2_Inv ==
    /\ epoch \in 0..Budget
    /\ Len(pass_log) <= 2 * Budget
    /\ \A i \in 1..Len(pass_log) : pass_log[i] = <<(i + 1) \div 2, i % 2 = 1>>
    /\ pc \in {"exhausted", "stopped"} => Len(pass_log) = 2 * epoch
    /\ pc = "exhausted" => epoch = Budget /\ Len(log_to_save) = Budget

\* C2: epochs are numbered 1, 2, ... and each is one TRAIN pass followed by
\* one VALIDATE pass; never more than num_epochs - 1 epochs run; when the loop
\* ends without an early stop exactly num_epochs - 1 epochs have run (none
\* when num_epochs <= 1); and the loop always ends.
C2_EpochBudget == []C2_Inv /\ <>Terminated

C2_Witness ==
    /\ pc = "exhausted" /\ params.num_epochs >= 4
    /\ epoch = params.num_epochs - 1

RECURSIVE WeightedSum(_, _)
WeightedSum(rs, f) ==
    IF rs = <<>> THEN 0
    ELSE rs[1][f] * rs[1].batch.num_graphs + WeightedSum(Tail(rs), f)

RECURSIVE TotalGraphs(_)
TotalGraphs(rs) ==
    IF rs = <<>> THEN 0 ELSE rs[1].batch.num_graphs + TotalGraphs(Tail(rs))

\* run_epoch has just returned to train().
Returned == pc \in {"valid_start", "log"}
ReturnedResults == IF pc = "valid_start" THEN train_results ELSE valid_results

\* The batches (loss 1, 1 graph), (loss 3, 3 graphs).
IsLossExample(rs) ==
    /\ Len(rs) = 2
    /\ rs[1].loss = 1 /\ rs[1].batch.num_graphs = 1
    /\ rs[2].loss = 3 /\ rs[2].batch.num_graphs = 3

\* C3: when run_epoch returns after a non-empty sequence of batches with more
\* than zero graphs in total, the loss and the accuracy it returns are
\* sum(value_i * graphs_i) / sum(graphs_i); the batches (loss 1, 1 graph) and
\* (loss 3, 3 graphs) give the loss 2.5, not 2; and such a sequence never ends
\* in the division error.
C3_WeightedMean ==
    /\ (Returned /\ TotalGraphs(runs) > 0) =>
          /\ \A f \in {"loss", "accuracy"} :
                LET r == ReturnedResults[f] IN
                /\ r.k = "num"
                /\ r.n * TotalGraphs(runs) = WeightedSum(runs, f) * r.d
          /\ IsLossExample(runs) =>
                LET r == ReturnedResults.loss IN
                2 * r.n = 5 * r.d /\ r.n # 2 * r.d
    /\ (pc = "error" /\ ~producer_failed) => TotalGraphs(runs) = 0

C3_Witness == pc = "valid_start" /\ IsLossExample(runs)

C4_Step ==
    /\ weights' # weights =>
          /\ pc = "train_loop"
          /\ Len(runs') = Len(runs) + 1
    /\ (pc = "train_loop" /\ Len(runs') = Len(runs) + 1) => weights' = weights + 1
    /\ pc \in {"valid_start", "valid_loop"} => weights' = weights
    /\ worker' \notin {worker, "idle"} => weights' = weights

C4_Runs ==
    \A i \in 1..Len(runs) :
        /\ runs[i].dropout = IF runs[i].is_training
                               THEN params.dropout_keep_prob ELSE KeepAll
        /\ runs[i].train_step = runs[i].is_training
        /\ pc \in {"train_loop", "valid_start"} => runs[i].is_training
        /\ pc \in {"valid_loop", "log"} => ~runs[i].is_training

\* C4: every batch of a validation pass is run with dropout-keep probability
\* 1.0 and without the update op, and the pass leaves the parameters as they
\* were; every batch of a training pass is run with the configured
\* dropout_keep_prob and with the update op; no step of the worker changes the
\* parameters.
C4_ParameterFrame == [][C4_Step]_vars /\ []C4_Runs

C4_Witness ==
    /\ pc = "log" /\ Len(runs) >= 1 /\ weights > 0
    /\ params.dropout_keep_prob # KeepAll

\* The epochs whose log write is finished.
Completed ==
    IF pc \in {"train_start", "train_loop", "valid_start", "valid_loop", "log",
               "dump", "error"}
      THEN epoch - 1 ELSE epoch

C5_Inv ==
    pc # "dump" =>
        /\ log_file.state = IF Max(Completed, 0) = 0 THEN "absent" ELSE "written"
        /\ Len(log_file.entries) = Max(Completed, 0)
        /\ \A i \in 1..Len(log_file.entries) : log_file.entries[i].epoch = i
        /\ log_file.entries = log_to_save

C5_Step ==
    (pc = "dump" /\ pc' # "dump") =>
        /\ log_file'.state = "written"
        /\ Len(log_file'.entries) = Len(last_persisted) + 1
        /\ SubSeq(log_file'.entries, 1, Len(last_persisted)) = last_persisted
        /\ log_file'.entries[Len(log_file'.entries)].epoch = epoch

\* C5: after every completed epoch k, the epoch of an early stop included,
\* the log file holds the list of exactly k entries with the epochs 1..k in
\* order; each write is the list of the previous write with one entry added,
\* the earlier entries unchanged.
C5_RunLog == [][C5_Step]_vars /\ []C5_Inv

C5_Witness ==
    /\ pc = "stopped" /\ log_file.state = "written"
    /\ Len(log_file.entries) = 3 /\ epoch = 3

\* The batches run through the session in this pass, in order.
RunBatches == [i \in 1..Len(runs) |-> runs[i].batch]

\* C6: in every pass, whatever the interleaving of worker and consumer,
\* the batches run_epoch has run are a prefix of the batches the iterator
\* has yielded, in the order yielded, and when run_epoch returns they are
\* all of them, each once.
C6_BatchOrder ==
    /\ Len(runs) <= Len(yielded)
    /\ \A i \in 1..Len(runs) : RunBatches[i] = yielded[i]
    /\ \A i, j \in 1..Len(yielded) : yielded[i].id = yielded[j].id => i = j
    /\ Returned =>
          /\ RunBatches = yielded
          /\ Len(yielded) = Len(PassData(pc = "valid_start"))

C6_Witness ==
    /\ Returned /\ Len(runs) = 3
    /\ \E i \in 1..3 : runs[i].batch.num_graphs = 0

FwdOf(d) == MaxOf({0} \cup UNION {EdgeTypesOf(d[i]) : i \in 1..Len(d)})

\* The largest vertex index among the records d.
VertexMaxOf(d) == MaxOf({0} \cup UNION {VerticesOf(d[i]) : i \in 1..Len(d)})

\* The number of features of the first node of the first record of d.
FirstWidth(d) == Len(d[1].node_features[1])

\* Every load_data call so far reached its call of process_raw_graphs.
LoadsWentThrough ==
    \/ ctor_pc = "load_valid" /\ Len(handed) = 1
    \/ ctor_pc \in {"make_model", "constructed"} /\ Len(handed) = 2
    \/ ctor_pc = "error" /\ calls # <<>> /\ Len(handed) = 2

C8_Inv ==
    Len(handed) = 2 =>
        num_edge_types = Max(FwdOf(handed[1]), FwdOf(handed[2]))
                           * (IF params.tie_fwd_bkwd THEN 1 ELSE 2)

\* C8: after load_data has run on two splits whose records, as loaded, have
\* the largest forward edge types fwd1 and fwd2, num_edge_types is
\* max(fwd1, fwd2) * (1 if tie_fwd_bkwd else 2), whichever split came first;
\* no load decreases num_edge_types.
C8_EdgeTypes == []C8_Inv /\ [][num_edge_types' >= num_edge_types]_vars

C8_Witness ==
    /\ Len(handed) = 2 /\ ~params.tie_fwd_bkwd
    /\ FwdOf(handed[1]) = 3 /\ FwdOf(handed[2]) = 2
    /\ num_edge_types = 6

\* C9 as claimed: annotation_size is the feature-vector length of the first
\* node of the first record of the first data set loaded, whatever is loaded
\* later.
C9_FirstLoadOnly ==
    Len(handed) >= 1 => annotation_size = FirstWidth(handed[1])

C9_Inv ==
    annotation_size = MaxOf({0} \cup {FirstWidth(handed[i]) : i \in 1..Len(handed)})

\* C9, amended: annotation_size is the largest, over the data sets loaded so
\* far, of the feature-vector length of the first node of the first record;
\* a later load with a longer vector raises it, no load lowers it.
C9_RunningMax == []C9_Inv /\ [][annotation_size' >= annotation_size]_vars

C9_Witness ==
    /\ Len(handed) = 2
    /\ FirstWidth(handed[1]) = 1 /\ FirstWidth(handed[2]) = 2
    /\ annotation_size = 2

\* The file the i-th load_data call of __init__ reads.
FileOfLoad(i) == IF i = 1 THEN "molecules_train.json" ELSE "molecules_valid.json"

\* The first min(N, L) records when a positive limit N is given, else all L.
KeptCount(L) ==
    IF args_restrict # <<>> /\ args_restrict[1] >= 1
      THEN (IF args_restrict[1] <= L THEN args_restrict[1] ELSE L)
      ELSE L

\* C10: the records load_data hands to process_raw_graphs are the first
\* min(N, L) records of the file, in the file's order, when a positive limit
\* N is given, and all L records when the limit is absent, zero or negative;
\* max_num_vertices, num_edge_types and annotation_size are computed from
\* the records handed over and no others.
C10_Prefix ==
    /\ \A i \in 1..Len(handed) :
          LET raw == files[FileOfLoad(i)] IN
          /\ Len(handed[i]) = KeptCount(Len(raw))
          /\ \A j \in 1..Len(handed[i]) : handed[i][j] = raw[j]
    /\ LoadsWentThrough =>
          /\ max_num_vertices =
                MaxOf({VertexMaxOf(handed[i]) : i \in 1..Len(handed)})
          /\ num_edge_types =
                MaxOf({FwdOf(handed[i]) : i \in 1..Len(handed)})
                   * (IF params.tie_fwd_bkwd THEN 1 ELSE 2)
          /\ annotation_size =
                MaxOf({FirstWidth(handed[i]) : i \in 1..Len(handed)})

C10_Witness ==
    /\ ctor_pc = "constructed" /\ args_restrict = <<1>>
    /\ files["molecules_train.json"] = <<RecA, RecC>>
    /\ files["molecules_valid.json"] = <<RecB, RecC>>
    /\ max_num_vertices = 2

\* ------------------------------------------------------------------ C11
\* What the configuration arguments set for key k, the inline
\* configuration before the file, the file before the defaults.
Given(arg, k) == arg # <<>> /\ k \in DOMAIN arg[1]
Expected(k) ==
    IF Given(args_config, k) THEN args_config[1][k]
    ELSE IF Given(args_config_file, k) THEN args_config_file[1][k]
    ELSE DefaultParams[k]
ExpectedKeys ==
    DOMAIN DefaultParams
      \cup (IF args_config_file # <<>> THEN DOMAIN args_config_file[1] ELSE {})
      \cup (IF args_config # <<>> THEN DOMAIN args_config[1] ELSE {})

\* C11: every key of the resolved parameters has the inline value when the
\* inline configuration defines it, else the file's value when the file
\* defines it, else the default; the merge is key by key, and resolving
\* the same inputs again gives the same parameters.
C11_ConfigResolution ==
    /\ \A i \in 1..Len(resolved) :
          IF DOMAIN resolved[i] # ExpectedKeys THEN FALSE
          ELSE \A k \in ExpectedKeys : resolved[i][k] = Expected(k)
    /\ \A i, j \in 1..Len(resolved) : resolved[i] = resolved[j]
    /\ (ctor_pc = "load_train" /\ resolved # <<>>) => params = resolved[Len(resolved)]

\* Both configurations set patience, differently; only the file sets
\* hidden_size; nothing sets num_epochs; the parameters were resolved twice.
C11_Witness ==
    /\ Len(resolved) = 2 /\ ctor_pc = "load_train"
    /\ Given(args_config, "patience") /\ Given(args_config_file, "patience")
    /\ args_config[1]["patience"] # args_config_file[1]["patience"]
    /\ Given(args_config_file, "hidden_size") /\ ~Given(args_config, "hidden_size")
    /\ params["patience"] = args_config[1]["patience"]
    /\ params["hidden_size"] = args_config_file[1]["hidden_size"]
    /\ params["num_epochs"] = DefaultParams["num_epochs"]

\* ------------------------------------------------------------------ C12
\* The calls of make_model so far follow its order and stop at the first
\* extension point without an override.
StopsAtFirstMissing ==
    \A i \in 1..Len(calls) :
        /\ i <= 3 => calls[i] = <<"prepare_specific_model",
                                  "compute_final_node_representations",
                                  "gated_regression">>[i]
        /\ calls[i] \notin hooks => i = Len(calls)

C12_Inv ==
    \* an extension point called without an override ends in an error
    /\ (seen_schema # <<>> /\ "process_raw_graphs" \notin hooks) => ctor_pc = "error"
    /\ (calls # <<>> /\ calls[Len(calls)] \notin hooks)
          => (ctor_pc = "error" \/ pc = "error")
    \* nothing of the construction or the run comes after it
    /\ StopsAtFirstMissing
    /\ "process_raw_graphs" \notin hooks =>
          /\ Len(handed) <= 1 /\ train_data = <<>> /\ valid_data = <<>>
          /\ calls = <<>>
    /\ ctor_pc # "constructed" => pc = "not_called" /\ pass_log = <<>>
    /\ "make_minibatch_iterator" \notin hooks =>
          /\ runs = <<>> /\ yielded = <<>> /\ worker = "idle"
          /\ log_to_save = <<>> /\ log_file.state = "absent"
          /\ Len(pass_log) <= 1
    /\ (AllHooks \ hooks) \cap {"process_raw_graphs", "prepare_specific_model",
                                 "compute_final_node_representations",
                                 "gated_regression"} # {}
          => ctor_pc # "constructed"

\* No step is taken from an error.
C12_Step == ~(ctor_pc = "error" \/ pc = "error")

\* C12: each of the five extension points, left without an override, ends
\* in an error when it is called, and no later step of the construction or
\* of the training runs after the first error: without process_raw_graphs
\* the validation split is never loaded and make_model never runs, without
\* make_minibatch_iterator no batch is processed and no log entry written.
C12_MissingHookFatal == []C12_Inv /\ [][C12_Step]_vars

\* A model without make_minibatch_iterator was constructed and its first
\* pass ended in the error.
C12_Witness ==
    /\ "make_minibatch_iterator" \notin hooks
    /\ ctor_pc = "constructed" /\ pc = "error"
    /\ Len(pass_log) = 1
    /\ calls # <<>> /\ calls[Len(calls)] = "make_minibatch_iterator"

\* ------------------------------------------------------------------ C13
\* The statement as the specification has it: construction calls the four
\* extension points, make_minibatch_iterator last, each once.
C13_FourHooksAtConstruction ==
    ctor_pc = "constructed" =>
        /\ calls = <<"prepare_specific_model", "compute_final_node_representations",
                     "gated_regression", "make_minibatch_iterator">>
        /\ hook_args[3] = ReturnOf("compute_final_node_representations")

\* C13: during model construction the base class calls three extension
\* points, prepare_specific_model, compute_final_node_representations and
\* gated_regression, in this order and each once, and gated_regression
\* receives the value compute_final_node_representations returned;
\* make_minibatch_iterator is not called during construction.
C13_ThreeHooksAtConstruction ==
    /\ ctor_pc = "constructed" =>
          /\ calls = <<"prepare_specific_model", "compute_final_node_representations",
                       "gated_regression">>
          /\ hook_args = <<NoArgument, NoArgument,
                           ReturnOf("compute_final_node_representations")>>
    /\ ctor_pc \in {"load_train", "load_valid", "make_model"} => calls = <<>>
    /\ \A i \in 1..Len(calls) : calls[i] # "make_minibatch_iterator"
    /\ \A i, j \in 1..Len(calls) : calls[i] = calls[j] => i = j

C13_Witness ==
    /\ ctor_pc = "constructed" /\ Len(calls) = 3
    /\ hook_args[3] = ReturnOf("compute_final_node_representations")
    /\ Len(handed) = 2

\* ------------------------------------------------------------------ C14
WorkerActive == worker \in {"next", "put", "put_last"}
LastPass == pass_log[Len(pass_log)]

\* A worker is active only inside the loop of the pass that started it.
C14_Inv == WorkerActive => InLoop

\* When a pass starts, the pass before it has run every batch of its data
\* set and its worker has finished; TRAIN and VALIDATE alternate.
C14_Step ==
    pass_log' # pass_log =>
        /\ ~WorkerActive /\ queue = <<>>
        /\ IF pass_log = <<>>
             THEN pass_log' = << <<1, TRUE>> >>
             ELSE /\ worker = "finished"
                  /\ RunBatches = yielded
                  /\ iter_pos = Len(PassData(LastPass[2]))
                  /\ Len(runs) = Len(PassData(LastPass[2]))
                  /\ pass_log' = Append(pass_log,
                                        IF LastPass[2] THEN <<LastPass[1], FALSE>>
                                        ELSE <<LastPass[1] + 1, TRUE>>)

\* C14: the validation pass of an epoch starts only after its training pass
\* has consumed every batch and its worker has finished, the training pass
\* of the next epoch only after the validation pass has done the same; at
\* most one producer worker is active at any moment.
C14_PassesNeverOverlap == []C14_Inv /\ [][C14_Step]_vars

\* The training pass of a second epoch is running, its worker active.
C14_Witness ==
    /\ Len(pass_log) = 3 /\ LastPass = <<2, TRUE>>
    /\ pc = "train_loop" /\ WorkerActive

\* ------------------------------------------------------------------ C15
\* C15: once the log write of an epoch k >= 1 has completed, the file on
\* disk holds at every later moment, the log write of epoch k + 1
\* included, a complete list with at least the entries of the epochs 1..k;
\* it is never empty or partial while earlier epochs have been logged.
C15_CrashSafe ==
    last_persisted # <<>> =>
        /\ log_file.state = "written"
        /\ Len(log_file.entries) >= Len(last_persisted)
        /\ \A i \in 1..Len(last_persisted) : log_file.entries[i] = last_persisted[i]

\* ------------------------------------------------------------------ C16
\* C16: the message of the early stop says that training stops after
\* `patience` epochs without improvement: whenever the early stop triggers
\* at epoch e, the number of epochs run since the best epoch,
\* e - best_val_acc_epoch, equals patience.
C16_StopsAfterPatience ==
    pc = "stopped" => epoch - best_val_acc_epoch = params.patience

\* ------------------------------------------------------------------ C17
\* The stopping test of the last epoch logged has been made.
EpochDone == pc \in {"for", "stopped", "exhausted"} /\ Len(log_to_save) = epoch

\* The aggregates a and b are the same number.
SameNumber(a, b) == a.k = "num" /\ b.k = "num" /\ a.n * b.d = b.n * a.d

\* best_val_acc is the minimum of the validation accuracies logged, first
\* attained in epoch best_val_acc_epoch.
BestIsMinimum ==
    /\ best_val_acc_epoch \in 1..Len(ValAccs)
    /\ SameNumber(ValAccs[best_val_acc_epoch], best_val_acc)
    /\ \A j \in 1..Len(ValAccs) : ~Less(ValAccs[j], best_val_acc)
    /\ \A j \in 1..(best_val_acc_epoch - 1) : ~SameNumber(ValAccs[j], best_val_acc)

C17_Inv ==
    /\ epoch = 0 => best_val_acc = PosInf /\ best_val_acc_epoch = 0
    /\ (EpochDone /\ epoch >= 1) => BestIsMinimum

C17_Step ==
    /\ ~Less(best_val_acc, best_val_acc')
    /\ best_val_acc_epoch' >= best_val_acc_epoch

\* C17: after every epoch k, best_val_acc is the minimum of the validation
\* accuracies of the epochs 1..k and best_val_acc_epoch the earliest epoch
\* attaining it; best_val_acc never increases and best_val_acc_epoch never
\* decreases; before the first epoch they are +inf and 0.
C17_BestTracker == []C17_Inv /\ [][C17_Step]_vars

\* ------------------------------------------------------------------ C18
\* C18: the schema values (max_num_vertices, num_edge_types,
\* annotation_size) process_raw_graphs sees for the training split are the
\* ones it sees for the validation split and the ones make_model uses,
\* whatever the two data sets.
C18_SchemaConsistent ==
    /\ \A i, j \in 1..Len(seen_schema) : seen_schema[i] = seen_schema[j]
    /\ ctor_pc \in {"make_model", "constructed"} =>
          \A i \in 1..Len(seen_schema) :
              seen_schema[i] = <<max_num_vertices, num_edge_types, annotation_size>>

\* ------------------------------------------------------------------ C19
Consume == ConsumeBatch \/ ConsumeEnd \/ ConsumeError

C19_Inv ==
    /\ Len(queue) <= 3
    \* the producer, an item in hand, waits exactly while the queue is full
    /\ (InLoop /\ worker \in {"put", "put_last"}) =>
          ((~ENABLED WorkerPut) <=> Len(queue) = 3)
    \* the consumer waits exactly while the queue is empty
    /\ InLoop => ((~ENABLED Consume) <=> queue = <<>>)
    \* and then the producer is not waiting too
    /\ (InLoop /\ queue = <<>>) => ENABLED Worker

\* The loop is left on the end of the stream, or on an error.
C19_Step ==
    (InLoop /\ ~InLoop') =>
        /\ queue # <<>>
        /\ producer_failed <=> Head(queue).kind = "error"
        /\ ~producer_failed =>
              /\ Head(queue).kind = "end"
              /\ Len(runs) = Len(PassData(IsTraining))

\* C19: the queue never holds more than 3 items; the producer is blocked
\* exactly while the queue is full, the consumer exactly while it is empty
\* and the end of the stream has not arrived; every pass over a finite
\* sequence of batches gets to the end of its stream, without deadlock.
C19_Backpressure ==
    /\ []C19_Inv
    /\ [][C19_Step]_vars
    /\ []<>(~InLoop)

\* The queue is full and the producer waits with the fourth item.
C19_Witness ==
    /\ InLoop /\ Len(queue) = 3 /\ worker \in {"put", "put_last"}
    /\ holding # NoItem

\* ------------------------------------------------------------------ C20
\* C20: a pass whose batches hold zero graphs in total (no batch at all, or
\* only batches of 0 graphs) ends run_epoch in an error and returns no
\* tuple, and train() appends and persists no log entry for that epoch: a
\* pass that returned has processed a graph, and so has every logged pass.
C20_EmptyPassIsError ==
    /\ Returned => TotalGraphs(runs) > 0
    /\ \A i \in 1..Len(log_to_save) :
          /\ log_to_save[i].train_results.accuracy.k = "num"
          /\ log_to_save[i].valid_results.accuracy.k = "num"

====
